---- MODULE Spec2Model ----
(***************************************************************************)
(* HR_index: the citation retrieval service.                               *)
(*                                                                         *)
(* Two listings of the service exist in the repository and both are        *)
(* modelled:                                                               *)
(*   - src/services/gemini.ts, the module the application imports.  Its    *)
(*     operations keep the source's names (getScopeAnalysis, ...).  Its    *)
(*     specification is Spec.                                              *)
(*   - the listing at the end of README.md: the grounded pipeline          *)
(*     (trust policy, grounding extraction, index validation).  Its        *)
(*     operations carry the prefix G_ where the name is already taken.     *)
(*     Its specification is SpecGrounded.                                  *)
(*                                                                         *)
(* A URL is a sequence of atoms (fragments of the string); a pattern of    *)
(* an allow-list is a sequence of atoms too, and String.includes is the    *)
(* occurrence of one as a contiguous run of the other.  The URLs of the    *)
(* universes below are cut at every place where an occurrence of a         *)
(* pattern starts or ends, so that the match on atoms is the match on      *)
(* characters.                                                             *)
(***************************************************************************)
EXTENDS Integers, Sequences, FiniteSets, TLC

(***************************************************************************)
(* Bounds of the model.                                                    *)
(***************************************************************************)
\* longest list of grounding chunks a response of call A carries
MaxChunks == 2
\* longest array of sources / sourceMatches a response of call B carries
MaxDrafts == 2
\* how many retrieval operations may be in flight at once
NumRequests == 2
\* how many canvas items and how many connections are ever created
MaxItems == 2
MaxConnections == 2
\* how many retrievals the App component may have in flight at once
MaxInFlight == 2

(***************************************************************************)
(* Sequences.                                                              *)
(***************************************************************************)
SeqsUpTo(S, n) == UNION {[1..k -> S] : k \in 0..n}

Range(s) == {s[i] : i \in 1..Len(s)}

\* Array.prototype.map
Map(s, F(_)) == [i \in 1..Len(s) |-> F(s[i])]

\* Array.prototype.filter: the elements that pass, in their order
Filter(s, P(_)) == SelectSeq(s, P)

(***************************************************************************)
(* Strings: toLowerCase and includes.                                      *)
(***************************************************************************)
\* String.prototype.toLowerCase on one atom; the only atoms of the
\* universes that hold upper-case letters are listed
LowerAtom(a) ==
  CASE a = "OHCHR" -> "ohchr"
    [] a = ".ORG" -> ".org"
    [] a = ".EDU" -> ".edu"
    [] a = "International" -> "international"
    [] a = "Regional" -> "regional"
    [] a = "National" -> "national"
    [] a = "Global" -> "global"
    [] a = "Europe" -> "europe"
    [] a = "Africa" -> "africa"
    [] a = "America" -> "america"
    [] a = "Asia" -> "asia"
    [] a = "ASEAN" -> "asean"
    [] a = "Inter-" -> "inter-"
    [] a = "South " -> "south "
    [] a = "Latin " -> "latin "
    [] a = " Union" -> " union"
    [] a = "Oceania" -> "oceania"
    [] a = "France" -> "france"
    [] OTHER -> a

toLowerCase(url) == [i \in 1..Len(url) |-> LowerAtom(url[i])]

\* String.prototype.includes
includes(s, pat) ==
  \E i \in 0..(Len(s) - Len(pat)) :
    \A j \in 1..Len(pat) : s[i + j] = pat[j]

(***************************************************************************)
(* DomainTrustPolicy (README.md listing).                                  *)
(***************************************************************************)
SourceTypes == {"legal", "ngo", "academic"}

\* const TRUSTED_DOMAINS
TRUSTED_DOMAINS ==
  [ legal |->
      << <<"un", ".org">>, <<"ohchr", ".org">>, <<"unicef", ".org">>,
         <<"unesco", ".org">>, <<"who", ".int">>, <<"ilo", ".org">>,
         <<"treaties.", "un", ".org">>, <<"legal.", "un", ".org">>,
         <<"icj-cij", ".org">>,
         <<"echr.", "coe", ".int">>, <<"coe", ".int">>, <<"achpr", ".org">>,
         <<"african-court", ".org">>, <<"corteidh", ".or.cr">>,
         <<"oas", ".org">>, <<"iachr", ".org">>, <<"asean", ".org">>,
         <<"europarl.", "europa", ".eu">>, <<"europa", ".eu">>,
         <<"refworld", ".org">>,
         <<".gov">>, <<".gob">>, <<".gc.ca">>, <<".gov", ".uk">>,
         <<".gov", ".au">>, <<"legislation", ".gov", ".uk">>,
         <<"legifrance", ".gouv.fr">>, <<"gesetze-im-internet", ".de">>,
         <<"constitution", ".org">>, <<"constituteproject", ".org">> >>,
    ngo |->
      << <<"hrw", ".org">>, <<"amnesty", ".org">>, <<"icrc", ".org">>,
         <<"humanrightsfirst", ".org">>, <<"article19", ".org">>,
         <<"fidh", ".org">>, <<"civilliberties", ".org">> >>,
    academic |->
      << <<"scholar.google", ".com">>, <<"researchgate", ".net">>,
         <<"academia", ".edu">>, <<"ssrn", ".com">>, <<"arxiv", ".org">>,
         <<".edu">>, <<".gov">>, <<"philpapers", ".org">>,
         <<"semanticscholar", ".org">>, <<"europepmc", ".org">>,
         <<"ncbi.nlm.nih", ".gov">>, <<"openaccess">>, <<"/pdf">> >> ]

\* a test against the allow-lists of all categories at once
isTrustedInAnyList(url, type) ==
  \E t \in SourceTypes : \E k \in 1..Len(TRUSTED_DOMAINS[t]) :
    includes(toLowerCase(url), toLowerCase(TRUSTED_DOMAINS[t][k]))

\* function isTrustedSource(url, type)
isTrustedSource(url, type) ==
  \E k \in 1..Len(TRUSTED_DOMAINS[type]) :
    includes(toLowerCase(url), toLowerCase(TRUSTED_DOMAINS[type][k]))

\* const goodPatterns, in isLikelyAccessible
goodPatterns ==
  << <<"scholar.google", ".com">>, <<"researchgate", ".net">>,
     <<"academia", ".edu">>, <<"ssrn", ".com">>, <<"arxiv", ".org">>,
     <<".edu">>, <<"/pdf">>, <<"openaccess">>, <<"philpapers", ".org">>,
     <<"semanticscholar", ".org">>, <<"europepmc", ".org">>,
     <<"ncbi.nlm.nih", ".gov", "/pmc">> >>

\* const badPatterns, in isLikelyAccessible
badPatterns ==
  << <<"jstor", ".org">>, <<"springer", ".com">>, <<"sciencedirect", ".com">>,
     <<"tandfonline", ".com">>, <<"wiley", ".com">>,
     <<"cambridge", ".org", "/core/journals">>, <<"oxfordjournals", ".org">>,
     <<"/abstract">>, <<"/citation">> >>

\* a test in which an allow-pattern outweighs a block-pattern
isLikelyAccessibleAllowWins(url, sourceType) ==
  IF sourceType = "legal" \/ sourceType = "ngo" THEN TRUE
  ELSE \E k \in 1..Len(goodPatterns) : includes(toLowerCase(url), goodPatterns[k])

\* function isLikelyAccessible(url, sourceType)
isLikelyAccessible(url, sourceType) ==
  IF sourceType = "legal" \/ sourceType = "ngo" THEN TRUE
  ELSE LET isGood == \E k \in 1..Len(goodPatterns) :
                       includes(toLowerCase(url), goodPatterns[k])
           isBad  == \E k \in 1..Len(badPatterns) :
                       includes(toLowerCase(url), badPatterns[k])
       IN  isGood /\ ~isBad

(***************************************************************************)
(* Universes: what the two model calls may answer.                         *)
(***************************************************************************)
\* URLs the search step may surface
U_ohchr    == <<"https://", "ohchr", ".org", "/x">>
U_blog     == <<"https://", "example-blog", ".com", "/y">>
U_hrw      == <<"https://", "www.", "hrw", ".org", "/report">>
U_arxiv    == <<"https://", "arxiv", ".org", "/abs/1">>
U_springer == <<"https://", "link.", "springer", ".com", "/content", "/pdf", "/x">>
\* a URL that exists only in the model's own text
U_invented == <<"https://", "treaties.", "un", ".org", "/invented">>
\* an absent (undefined) or empty uri: both are falsy
NoUri == << >>

SearchUrls == {U_ohchr, U_blog, U_hrw, U_arxiv, U_springer}

\* A grounding chunk; web = FALSE is a chunk with no web part, title = ""
\* a web part with no title, uri = NoUri a web part with no uri.
Chunk(w, t, u) == [web |-> w, title |-> t, uri |-> u]

ChunkUniverse ==
  { Chunk(FALSE, "", NoUri), Chunk(TRUE, "Doc", NoUri), Chunk(TRUE, "", U_ohchr) }
  \cup { Chunk(TRUE, "Doc", u) : u \in SearchUrls \ {U_ohchr} }

\* The text of an answer of call A: free prose, which may or may not
\* spell out the URL of a page the search surfaced (here: of the surfaced
\* page that is on no trusted list)
PlainText == <<"analysis">>
SearchTexts(cs) ==
  {PlainText} \cup { <<"see ">> \o cs[i].uri : i \in {j \in 1..Len(cs) : cs[j].uri = U_blog} }

\* The response of generation call A:
\*   kind      "throw": generateContent rejects; "blocked": response.text()
\*             throws; "ok": the text is there
\*   grounding how far response.candidates?.[0]?.groundingMetadata
\*             ?.groundingChunks is present
\*   text      what response.text() says, as far as it names URLs
RespA(k, g, cs) == [kind |-> k, grounding |-> g, chunks |-> cs, text |-> PlainText]

\* the same response with another text
Saying(r, t) == [r EXCEPT !.text = t]

\* responses with no grounding metadata: all that the model of
\* services/gemini.ts, built without a search tool, can answer
UngroundedResponses ==
  { RespA(k, "noCandidates", << >>) : k \in {"throw", "blocked", "ok"} }

\* responses of the model of the README.md listing (googleSearch tool)
GroundedResponses ==
  UngroundedResponses
  \cup { RespA("ok", g, << >>) : g \in {"noMetadata", "noChunks"} }
  \cup UNION { { Saying(RespA("ok", "chunks", cs), t) : t \in SearchTexts(cs) } :
                 cs \in SeqsUpTo(ChunkUniverse, MaxChunks) }

\* A JSON value, as far as the code looks into it:
\*   shape  "unparseable" (JSON.parse throws), "null", "scalar" (a number,
\*          a string or true), "array", "object"
\*   items  the elements of an array
\*   fields the members of an object in key order, each
\*          [key, isArray, items]
Json(sh, its, fs) == [shape |-> sh, items |-> its, fields |-> fs]
Field(k, a, its) == [key |-> k, isArray |-> a, items |-> its]
JsonObject(k, its) == Json("object", << >>, <<Field(k, TRUE, its)>>)

\* A number or other value found at urlIndex: an integer n, a fraction
\* (n + 1/2), or the string that spells n
JInt(n)  == [t |-> "int", n |-> n]
JFrac(n) == [t |-> "frac", n |-> n]
JStr(n)  == [t |-> "str", n |-> n]

\* Number.isInteger
NumberIsInteger(v) == v.t = "int"

\* An element of sourceMatches as the model may write it (README.md
\* listing); uri is a URL the model put into its own text
Draft(i, t, y, u) ==
  [urlIndex |-> i, title |-> t, year |-> y, reference |-> "quote", uri |-> u]

\* match.year of a draft that has no year member (undefined)
NoYear == "undefined"

\* the draft for index 1 has no year, the one with the other title an
\* empty year
DraftUniverse ==
  { Draft(JInt(i), "Title", "2020", U_invented) : i \in (-1..MaxChunks) \ {1} }
  \cup { Draft(JInt(1), "Title", NoYear, U_invented),
         Draft(JInt(0), "Other title", "", U_invented),
         Draft(JFrac(0), "Title", "2020", U_invented),
         Draft(JStr(0), "Title", "2020", U_ohchr) }

\* An element of sources as the model may write it (services/gemini.ts)
Source(t, u) == [title |-> t, uri |-> u, reference |-> "quote"]

SourceUniverse ==
  { Source("Title", U_invented), Source("Title", U_ohchr),
    Source("Other title", U_ohchr), Source("Title", U_blog) }

\* The response of generation call B: it rejects, or carries a text
RespB(k, j) == [kind |-> k, parsed |-> j]

BadShapes(key) ==
  { Json("unparseable", << >>, << >>), Json("null", << >>, << >>),
    Json("scalar", << >>, << >>),
    Json("object", << >>, << >>),
    Json("object", << >>, <<Field(key, FALSE, << >>)>>) }

ThrowB == RespB("throw", Json("null", << >>, << >>))

\* answers to the extraction prompt of the README.md listing
DraftResponses ==
  {ThrowB}
  \cup { RespB("text", j) : j \in BadShapes("sourceMatches") }
  \cup { RespB("text", JsonObject("sourceMatches", ds)) :
           ds \in SeqsUpTo(DraftUniverse, MaxDrafts) }

\* answers to the extraction prompt of services/gemini.ts
SourceResponses ==
  {ThrowB}
  \cup { RespB("text", j) : j \in BadShapes("sources") }
  \cup { RespB("text", Json("array", << >>, << >>)) }
  \cup { RespB("text", JsonObject("sources", ss)) :
           ss \in SeqsUpTo(SourceUniverse, MaxDrafts) }

\* An element of an array the semantic-match prompt is answered with: a
\* string (a right identifier), or an object such as an item of the
\* sources array that the responseSchema of modelNoSearch prescribes
JId(s)  == [t |-> "str", s |-> s]
JItem(s) == [t |-> "obj", s |-> s]

\* answers to the semantic-match prompt
SemanticResponses ==
  {ThrowB}
  \cup { RespB("text", j) : j \in BadShapes("ids") }
  \cup { RespB("text", Json("array", ids, << >>)) :
           ids \in {<< >>, <<JId("3")>>, <<JId("3"), JId("7")>>} }
  \cup { RespB("text", Json("object", << >>, fs)) :
           fs \in { <<Field("ids", TRUE, <<JId("3"), JId("7")>>)>>,
                    <<Field("note", FALSE, << >>), Field("ids", TRUE, <<JId("3")>>)>>,
                    <<Field("a", TRUE, <<JId("1")>>), Field("b", TRUE, <<JId("5")>>)>>,
                    <<Field("sources", TRUE, << >>)>>,
                    <<Field("sources", TRUE, <<JItem("Title")>>)>>,
                    <<Field("sources", TRUE, <<JItem("3"), JItem("7")>>)>> } }

(***************************************************************************)
(* State of one request.                                                   *)
(***************************************************************************)
VARIABLES
  pc,             \* "idle", "awaitA", "awaitB" (a model call is pending), "done"
  op,             \* the operation in progress: [name, a, b]
  respA,          \* what call A answered (the local result)
  groundingUrls,  \* README.md listing: the candidates extracted from respA
  trustedUrls,    \* README.md listing: the candidates that passed the filter
  respB,          \* what call B answered (the local result of the 2nd call)
  log,            \* the model calls of this request and how each ended
  prompt,         \* the prompt call B of a retrieval was given, as atoms
  outcome,        \* how the operation ended: [kind, value]
  reqs,           \* concurrent callers: the frame of each operation in flight
  pol,            \* the last evaluation of a pure helper: [fn, args, result]
  ui              \* the state of the App component and its retrievals in flight

\* the state of the single caller
seqvars == <<pc, op, respA, respB, groundingUrls, trustedUrls, log, prompt, outcome>>

vars == <<pc, op, respA, respB, groundingUrls, trustedUrls, log, prompt, outcome, reqs, pol, ui>>

\* the catalog's right names the callers pass
Rights == {"Right to Life", "Freedom of Expression"}

RetrievalOps == {"getScopeAnalysis", "getStatusAnalysis", "getNexusAnalysis"}

Op(n, x, y) == [name |-> n, a |-> x, b |-> y]
NoOp == Op("none", "", "")
NoResp == RespA("none", "noCandidates", << >>)
NoRespB == RespB("none", Json("null", << >>, << >>))

\* a completion of an async function: its promise is fulfilled with a
\* value, or rejected
Pending == [kind |-> "pending", value |-> Json("null", << >>, << >>)]
Returned(v) == [kind |-> "returned", value |-> v]
Rejected == [kind |-> "threw", value |-> Json("null", << >>, << >>)]

\* { sources: [...] }
DialogueResult(sources) == JsonObject("sources", sources)
EmptyResult == DialogueResult(<< >>)

\* null, for a DialogueResult and for an id; the DialogueResult of a
\* retrieval is told apart by the request it answers: the item or
\* connection it was issued for, the right names and the analysis type
NoAnalysis == [target |-> 0, subjects |-> << >>, type |-> "none"]
NoId == 0
\* an analysis field that was never set, JSON.stringify and JSON.parse
NoText == [json |-> NoAnalysis]
JSONstringify(res) == [json |-> res]
JSONparse(text) == text.json

ReqIds == 1..NumRequests

\* no helper has been evaluated yet
NoEval == [fn |-> "none", args |-> << >>, result |-> << >>]

\* const [x, setX] = useState(...): the App component as first rendered;
\* inFlight are the retrievals awaited by its handlers, nextItemId and
\* nextConnectionId count the ids Math.random() has given out, afterClear
\* is set while clearCanvas was the last user action
InitialApp ==
  [searchMode |-> "Framework", selectedDisplay |-> << >>, canvasItems |-> << >>,
   connections |-> << >>, activeAnalysis |-> NoAnalysis, analysisType |-> "treaty",
   isLoading |-> FALSE, connectingFrom |-> NoId, activeSubjects |-> << >>,
   draggingItemId |-> NoId, hasMoved |-> FALSE,
   inFlight |-> << >>, nextItemId |-> 1, nextConnectionId |-> 1,
   afterClear |-> FALSE]

\* the locals of one invocation of a retrieval operation; overlapped is
\* set once a step of it ran while another invocation was in flight
IdleFrame ==
  [pc |-> "idle", op |-> NoOp, respA |-> NoResp, groundingUrls |-> << >>,
   trustedUrls |-> << >>, respB |-> NoRespB, outcome |-> Pending,
   overlapped |-> FALSE]

Init ==
  /\ pc = "idle"
  /\ op = NoOp
  /\ respA = NoResp
  /\ respB = NoRespB
  /\ groundingUrls = << >>
  /\ trustedUrls = << >>
  /\ log = << >>
  /\ prompt = << >>
  /\ outcome = Pending
  /\ reqs = [i \in ReqIds |-> IdleFrame]
  /\ pol = NoEval
  /\ ui = InitialApp

\* an operation starts: its first model call goes out
Begin(o, call) ==
  /\ pc = "idle"
  /\ op' = o
  /\ log' = <<call>>
  /\ pc' = IF call = "callA" THEN "awaitA" ELSE "awaitB"
  /\ UNCHANGED <<respA, respB, groundingUrls, trustedUrls, prompt, outcome, reqs, pol, ui>>

\* an operation that issues its first call again once it has ended
RetryWhenDone ==
  /\ pc = "done"
  /\ pc' = "awaitA"
  /\ log' = <<"callA">>
  /\ respA' = NoResp
  /\ respB' = NoRespB
  /\ groundingUrls' = << >>
  /\ trustedUrls' = << >>
  /\ prompt' = << >>
  /\ outcome' = Pending
  /\ UNCHANGED <<op, reqs, pol, ui>>

\* the caller has the result; the request's locals are gone
TakeResult ==
  /\ pc = "done"
  /\ pc' = "idle"
  /\ op' = NoOp
  /\ respA' = NoResp
  /\ respB' = NoRespB
  /\ groundingUrls' = << >>
  /\ trustedUrls' = << >>
  /\ log' = << >>
  /\ prompt' = << >>
  /\ outcome' = Pending
  /\ UNCHANGED <<reqs, pol, ui>>

(***************************************************************************)
(* services/gemini.ts.                                                     *)
(***************************************************************************)
\* encodeURIComponent(`"${fromRight}" AND "${toRight}" human rights`), as
\* the atom that follows the search URL's "?q="
encodeURIComponent(x, y) == <<"q", x, y>>

\* the catch blocks: the static result of each operation
Fallback(o) ==
  CASE o.name = "getScopeAnalysis" ->
         [title |-> "Legal framework information temporarily unavailable",
          uri |-> <<"https://", "www.", "ohchr", ".org", "/en/instruments-listings">>,
          reference |-> <<"Unable to retrieve legal framework information">>]
    [] o.name = "getStatusAnalysis" ->
         [title |-> "Current status information temporarily unavailable",
          uri |-> <<"https://", "www.", "hrw", ".org", "/world-report/2024">>,
          reference |-> <<"Unable to retrieve current status information for", o.a>>]
    [] o.name = "getNexusAnalysis" ->
         [title |-> "Academic research temporarily unavailable",
          uri |-> <<"https://", "scholar.google", ".com", "/scholar?q=">>
                    \o encodeURIComponent(o.a, o.b),
          reference |-> <<"Search Google Scholar manually", o.a, o.b>>]

\* a catch block that returns the empty result instead
CatchEmpty(o) == Returned(EmptyResult)

\* catch (error) { ...; return { sources: [ <static result> ] } }
Catch(o) == Returned(DialogueResult(<<Fallback(o)>>))

\* export async function getScopeAnalysis: up to the first await
getScopeAnalysis ==
  \E r \in Rights : Begin(Op("getScopeAnalysis", r, ""), "callA")

\* export async function getStatusAnalysis: up to the first await
getStatusAnalysis ==
  \E r \in Rights : Begin(Op("getStatusAnalysis", r, ""), "callA")

\* export async function getNexusAnalysis: up to the first await
getNexusAnalysis ==
  \E r \in Rights : \E t \in Rights \ {r} :
    Begin(Op("getNexusAnalysis", r, t), "callA")

\* const legalPrompt / analysisPrompt / nexusPrompt: the template around
\* the right's name and the text of call A
ContextPrompt(o, text) ==
  <<"Based on this information about ", o.a, "CONTEXT:">> \o text
    \o <<"Extract into a JSON structure with sources">>

\* model.generateContent settles: result.response.text(), then the second
\* prompt goes to modelNoSearch; a rejection or a throwing text() is caught
SearchSettles ==
  /\ pc = "awaitA"
  /\ op.name \in RetrievalOps
  /\ \E r \in UngroundedResponses :
       /\ respA' = r
       /\ IF r.kind = "ok"
          THEN /\ log' = log \o <<"retA", "callB">>
               /\ pc' = "awaitB"
               /\ prompt' = ContextPrompt(op, r.text)
               /\ outcome' = outcome
          ELSE /\ log' = log \o <<IF r.kind = "throw" THEN "throwA" ELSE "retA">>
               /\ pc' = "done"
               /\ prompt' = << >>
               /\ outcome' = Catch(op)
  /\ UNCHANGED <<op, respB, groundingUrls, trustedUrls, reqs, pol, ui>>

\* a try block with no catch: the exception leaves the function
GuardedRethrows(o, attempt) == attempt

\* try { ... } catch: a completion of the try block, or the catch block's
Guarded(o, attempt) == IF attempt.kind = "threw" THEN Catch(o) ELSE attempt

\* const parsed = JSON.parse(legalResult.response.text()); return parsed
ReturnParsed(r) ==
  IF r.kind = "throw" \/ r.parsed.shape = "unparseable"
  THEN Rejected
  ELSE Returned(r.parsed)

\* modelNoSearch.generateContent settles in a retrieval operation
ExtractionSettles ==
  /\ pc = "awaitB"
  /\ op.name \in RetrievalOps
  /\ \E r \in SourceResponses :
       /\ respB' = r
       /\ log' = log \o <<IF r.kind = "throw" THEN "throwB" ELSE "retB">>
       /\ outcome' = Guarded(op, ReturnParsed(r))
  /\ pc' = "done"
  /\ UNCHANGED <<op, respA, groundingUrls, trustedUrls, prompt, reqs, pol, ui>>

\* for (const key of Object.keys(parsed)) if (Array.isArray(parsed[key]))
\* return parsed[key]: the first array-valued member, or none
RECURSIVE FirstArrayField(_)
FirstArrayField(fields) ==
  IF fields = << >> THEN << >>
  ELSE IF Head(fields).isArray THEN <<Head(fields)>>
       ELSE FirstArrayField(Tail(fields))

JsonArray(items) == Json("array", items, << >>)

\* a body that returns the parsed value as it is
SemanticReturnsParsed(r) ==
  IF r.kind = "throw" \/ r.parsed.shape = "unparseable"
  THEN Returned(JsonArray(<< >>))
  ELSE Returned(r.parsed)

\* the body of getSemanticRights after the call settled
SemanticCoerce(r) ==
  IF r.kind = "throw" THEN Returned(JsonArray(<< >>))
  ELSE IF r.parsed.shape = "unparseable" THEN Returned(JsonArray(<< >>))
  ELSE IF r.parsed.shape = "null" THEN Returned(JsonArray(<< >>))
  ELSE IF r.parsed.shape = "array" THEN Returned(r.parsed)
  ELSE IF r.parsed.shape = "object"
            /\ FirstArrayField(r.parsed.fields) # << >>
       THEN Returned(JsonArray(FirstArrayField(r.parsed.fields)[1].items))
  ELSE Returned(JsonArray(<< >>))

\* export async function getSemanticRights: up to the await
getSemanticRights ==
  \E term \in {"privacy"} : Begin(Op("getSemanticRights", term, ""), "callB")

\* modelNoSearch.generateContent settles in getSemanticRights
SemanticSettles ==
  /\ pc = "awaitB"
  /\ op.name = "getSemanticRights"
  /\ \E r \in SemanticResponses :
       /\ respB' = r
       /\ log' = log \o <<IF r.kind = "throw" THEN "throwB" ELSE "retB">>
       /\ outcome' = SemanticCoerce(r)
  /\ pc' = "done"
  /\ UNCHANGED <<op, respA, groundingUrls, trustedUrls, prompt, reqs, pol, ui>>

Next ==
  \/ getScopeAnalysis
  \/ getStatusAnalysis
  \/ getNexusAnalysis
  \/ getSemanticRights
  \/ SearchSettles
  \/ ExtractionSettles
  \/ SemanticSettles
  \/ TakeResult

Spec == Init /\ [][Next]_vars

(***************************************************************************)
(* The grounded pipeline (README.md listing).                              *)
(***************************************************************************)
\* the sourceType each operation hands to parseSearchResults
SourceTypeOf(o) ==
  CASE o.name = "getScopeAnalysis" -> "legal"
    [] o.name = "getStatusAnalysis" -> "ngo"
    [] o.name = "getNexusAnalysis" -> "academic"

\* a mapping that leaves a missing title as it is
ToCandidateNoDefault(c) ==
  [title |-> IF c.web THEN c.title ELSE "",
   uri   |-> IF c.web THEN c.uri ELSE NoUri]

\* c => ({ title: c.web?.title || "Source", uri: c.web?.uri })
ToCandidate(c) ==
  [title |-> IF c.web /\ c.title # "" THEN c.title ELSE "Source",
   uri   |-> IF c.web THEN c.uri ELSE NoUri]

HasUri(c) == c.uri # NoUri

\* groundingMetadata?.groundingChunks?.map(...).filter(c => c.uri) || []
ExtractGrounding(r) ==
  IF r.grounding = "chunks"
  THEN Filter(Map(r.chunks, ToCandidate), HasUri)
  ELSE << >>

\* a filter that asks for trust alone in every category
FilterTrustedOnly(urls, sourceType) ==
  Filter(urls, LAMBDA u : isTrustedSource(u.uri, sourceType))

\* parseSearchResults: the filter that yields trustedUrls
FilterTrusted(urls, sourceType) ==
  IF sourceType = "legal"
  THEN Filter(urls, LAMBDA u : isTrustedSource(u.uri, sourceType))
  ELSE Filter(urls, LAMBDA u : isTrustedSource(u.uri, sourceType)
                                 /\ isLikelyAccessible(u.uri, sourceType))

\* the range test alone, without Number.isInteger
IsValidIndexAnyValue(index, n) == index.n >= 0 /\ index.n < n

\* the test of parsed.sourceMatches.filter
IsValidIndex(index, n) ==
  NumberIsInteger(index) /\ index.n >= 0 /\ index.n < n

\* match.year || "N/A": undefined and the empty string are falsy
YearOr(year, default) == IF year \in {"", NoYear} THEN default ELSE year

\* a record that takes the uri the model wrote
ToCitationEchoesUri(match, trusted) ==
  [title     |-> match.title,
   uri       |-> match.uri,
   date      |-> YearOr(match.year, "N/A"),
   reference |-> match.reference]

\* a record that defaults the date of an empty year only
ToCitationEmptyYearOnly(match, trusted) ==
  [title     |-> match.title,
   uri       |-> trusted[match.urlIndex.n + 1].uri,
   date      |-> IF match.year = "" THEN "N/A" ELSE match.year,
   reference |-> match.reference]

\* the record built by .map; an index is 0-based, a sequence 1-based
ToCitation(match, trusted) ==
  [title     |-> match.title,
   uri       |-> trusted[match.urlIndex.n + 1].uri,
   date      |-> YearOr(match.year, "N/A"),
   reference |-> match.reference]

\* a validator that gives the whole batch up when one draft is invalid
ValidateMatchesAllOrNothing(matches, trusted) ==
  IF \A i \in 1..Len(matches) : IsValidIndex(matches[i].urlIndex, Len(trusted))
  THEN Map(matches, LAMBDA m : ToCitation(m, trusted))
  ELSE << >>

\* parsed.sourceMatches.filter(...).map(...)
ValidateMatches(matches, trusted) ==
  Map(Filter(matches, LAMBDA m : IsValidIndex(m.urlIndex, Len(trusted))),
      LAMBDA m : ToCitation(m, trusted))

\* parsed.sourceMatches: the member's elements when it is an array
HasArrayMember(j, key) ==
  /\ j.shape = "object"
  /\ \E i \in 1..Len(j.fields) : j.fields[i].key = key /\ j.fields[i].isArray

Member(j, key) ==
  j.fields[CHOOSE i \in 1..Len(j.fields) : j.fields[i].key = key].items

\* parseSearchResults: the try block after the call settled; everything
\* but an object whose sourceMatches is an array throws
G_TryParse(r, trusted) ==
  IF r.kind = "throw" \/ ~HasArrayMember(r.parsed, "sourceMatches")
  THEN Rejected
  ELSE Returned(DialogueResult(
         ValidateMatches(Member(r.parsed, "sourceMatches"), trusted)))

\* catch (error) { ...; return { sources: [] } }, of parseSearchResults and
\* of the three operations
G_Catch == Returned(EmptyResult)

G_Guarded(attempt) == IF attempt.kind = "threw" THEN G_Catch ELSE attempt

\* export async function getScopeAnalysis: up to the first await
G_getScopeAnalysis ==
  \E r \in Rights : Begin(Op("getScopeAnalysis", r, ""), "callA")

\* export async function getStatusAnalysis: up to the first await
G_getStatusAnalysis ==
  \E r \in Rights : Begin(Op("getStatusAnalysis", r, ""), "callA")

\* export async function getNexusAnalysis: up to the first await
G_getNexusAnalysis ==
  \E r \in Rights : \E t \in Rights \ {r} :
    Begin(Op("getNexusAnalysis", r, t), "callA")

\* `[${i}] ${u.title}\n URL: ${u.uri}`
SourceLine(u, i) == <<"[", ToString(i), "]", u.title, "URL:">> \o u.uri

RECURSIVE JoinLines(_, _)
\* trustedUrls.map((u, i) => `[${i}] ${u.title}\n URL: ${u.uri}`).join(...)
\* from position k on (positions are counted from 1, indices from 0)
JoinLines(urls, k) ==
  IF k > Len(urls) THEN << >>
  ELSE SourceLine(urls[k], k - 1) \o JoinLines(urls, k + 1)

\* a source list numbered from 1
SourceListFromOne(urls) ==
  IF urls = << >> THEN << >>
  ELSE SourceLine(urls[1], 1) \o JoinLines(Tail(urls), 2)

\* the source list of the prompt
SourceList(urls) == JoinLines(urls, 1)

\* const prompt, in parseSearchResults
ExtractionPrompt(query, searchContext, trusted) ==
  <<"Based on the following search results about: ">> \o query
    \o <<"SEARCH CONTEXT:">> \o searchContext
    \o <<"Available verified sources:">> \o SourceList(trusted)
    \o <<"CRITICAL RULES">>

\* a guard that never returns early
NeverShortCircuits(trusted) == FALSE

\* if (trustedUrls.length === 0) return { sources: [] }
ShortCircuits(trusted) == Len(trusted) = 0

\* model.generateContent settles: text(), the grounding candidates, then
\* parseSearchResults up to its await (or its early return)
G_SearchSettles ==
  /\ pc = "awaitA"
  /\ op.name \in RetrievalOps
  /\ \E r \in GroundedResponses :
       /\ respA' = r
       /\ IF r.kind # "ok"
          THEN /\ log' = log \o <<IF r.kind = "throw" THEN "throwA" ELSE "retA">>
               /\ groundingUrls' = << >>
               /\ trustedUrls' = << >>
               /\ pc' = "done"
               /\ prompt' = << >>
               /\ outcome' = G_Catch
          ELSE LET urls == ExtractGrounding(r)
                   trusted == FilterTrusted(urls, SourceTypeOf(op))
               IN  /\ groundingUrls' = urls
                   /\ trustedUrls' = trusted
                   /\ IF ShortCircuits(trusted)
                      THEN /\ log' = log \o <<"retA">>
                           /\ pc' = "done"
                           /\ prompt' = << >>
                           /\ outcome' = Returned(EmptyResult)
                      ELSE /\ log' = log \o <<"retA", "callB">>
                           /\ pc' = "awaitB"
                           /\ prompt' = ExtractionPrompt(<<op.a>>, r.text, trusted)
                           /\ outcome' = outcome
  /\ UNCHANGED <<op, respB, reqs, pol, ui>>

\* modelNoSearch.generateContent settles in parseSearchResults
G_ExtractionSettles ==
  /\ pc = "awaitB"
  /\ op.name \in RetrievalOps
  /\ \E r \in DraftResponses :
       /\ respB' = r
       /\ log' = log \o <<IF r.kind = "throw" THEN "throwB" ELSE "retB">>
       /\ outcome' = G_Guarded(G_TryParse(r, trustedUrls))
  /\ pc' = "done"
  /\ UNCHANGED <<op, respA, groundingUrls, trustedUrls, prompt, reqs, pol, ui>>

\* return JSON.parse(result.response.text()), or [] from the catch block
G_SemanticParse(r) ==
  IF r.kind = "throw" \/ r.parsed.shape = "unparseable"
  THEN Returned(JsonArray(<< >>))
  ELSE Returned(r.parsed)

\* export async function getSemanticRights: up to the await
G_getSemanticRights ==
  \E term \in {"privacy"} : Begin(Op("getSemanticRights", term, ""), "callB")

\* modelNoSearch.generateContent settles in getSemanticRights
G_SemanticSettles ==
  /\ pc = "awaitB"
  /\ op.name = "getSemanticRights"
  /\ \E r \in SemanticResponses :
       /\ respB' = r
       /\ log' = log \o <<IF r.kind = "throw" THEN "throwB" ELSE "retB">>
       /\ outcome' = G_SemanticParse(r)
  /\ pc' = "done"
  /\ UNCHANGED <<op, respA, groundingUrls, trustedUrls, prompt, reqs, pol, ui>>

NextGrounded ==
  \/ G_getScopeAnalysis
  \/ G_getStatusAnalysis
  \/ G_getNexusAnalysis
  \/ G_getSemanticRights
  \/ G_SearchSettles
  \/ G_ExtractionSettles
  \/ G_SemanticSettles
  \/ TakeResult

SpecGrounded == Init /\ [][NextGrounded]_vars

(***************************************************************************)
(* README.md listing: several retrieval operations in flight at once.      *)
(* Each invocation has its own locals, and the event loop interleaves what *)
(* follows each await.                                                     *)
(***************************************************************************)
\* what the concurrent callers ask for
ConcurrentOps ==
  { Op("getScopeAnalysis", "Right to Life", ""),
    Op("getStatusAnalysis", "Right to Life", "") }

\* what call A and call B answer them
ConcurrentSearchResponses ==
  { RespA("throw", "noCandidates", << >>) }
  \cup { RespA("ok", "chunks", cs) :
           cs \in { <<Chunk(TRUE, "", U_ohchr)>>,
                    <<Chunk(TRUE, "Doc", U_hrw)>>,
                    <<Chunk(TRUE, "Doc", U_hrw), Chunk(TRUE, "", U_ohchr)>> } }

ConcurrentDraftResponses ==
  { ThrowB }
  \cup { RespB("text", JsonObject("sourceMatches", ds)) :
           ds \in { <<Draft(JInt(0), "Title", "2020", U_invented)>>,
                    <<Draft(JInt(1), "Title", "2020", U_invented),
                      Draft(JInt(0), "Other title", "", U_invented)>> } }

InFlight(j) == reqs[j].pc \in {"awaitA", "awaitB"}
OthersInFlight(i) == \E j \in ReqIds \ {i} : InFlight(j)

\* a list kept in one place for all invocations: the first frame's
SharedTrusted(i) == reqs[CHOOSE j \in ReqIds : \A k \in ReqIds : j <= k].trustedUrls

\* let trustedUrls: a local of the invocation
TrustedOf(i) == reqs[i].trustedUrls

\* an invocation starts: call A goes out
C_Begin(i) ==
  /\ reqs[i].pc = "idle"
  /\ \E o \in ConcurrentOps :
       reqs' = [reqs EXCEPT ![i] = [IdleFrame EXCEPT !.pc = "awaitA", !.op = o]]
  /\ UNCHANGED <<seqvars, pol, ui>>

\* call A of invocation i settles: extract, filter, return or issue call B
C_SearchSettles(i) ==
  /\ reqs[i].pc = "awaitA"
  /\ \E r \in ConcurrentSearchResponses :
       LET urls    == ExtractGrounding(r)
           trusted == FilterTrusted(urls, SourceTypeOf(reqs[i].op))
           seen    == reqs[i].overlapped \/ OthersInFlight(i)
       IN  reqs' = [reqs EXCEPT ![i] =
             IF r.kind # "ok"
             THEN [@ EXCEPT !.respA = r, !.pc = "done", !.outcome = G_Catch,
                            !.overlapped = seen]
             ELSE IF ShortCircuits(trusted)
             THEN [@ EXCEPT !.respA = r, !.groundingUrls = urls,
                            !.trustedUrls = trusted, !.pc = "done",
                            !.outcome = Returned(EmptyResult), !.overlapped = seen]
             ELSE [@ EXCEPT !.respA = r, !.groundingUrls = urls,
                            !.trustedUrls = trusted, !.pc = "awaitB",
                            !.overlapped = seen]]
  /\ UNCHANGED <<seqvars, pol, ui>>

\* call B of invocation i settles: validate against the invocation's list
C_ExtractionSettles(i) ==
  /\ reqs[i].pc = "awaitB"
  /\ \E r \in ConcurrentDraftResponses :
       reqs' = [reqs EXCEPT ![i] =
                  [@ EXCEPT !.respB = r, !.pc = "done",
                            !.outcome = G_Guarded(G_TryParse(r, TrustedOf(i))),
                            !.overlapped = @ \/ OthersInFlight(i)]]
  /\ UNCHANGED <<seqvars, pol, ui>>

\* the caller of invocation i has its result
C_TakeResult(i) ==
  /\ reqs[i].pc = "done"
  /\ reqs' = [reqs EXCEPT ![i] = IdleFrame]
  /\ UNCHANGED <<seqvars, pol, ui>>

NextConcurrent ==
  \E i \in ReqIds :
    \/ C_Begin(i)
    \/ C_SearchSettles(i)
    \/ C_ExtractionSettles(i)
    \/ C_TakeResult(i)

SpecConcurrent == Init /\ [][NextConcurrent]_vars

(***************************************************************************)
(* README.md listing: the pure helpers, each applied to inputs of its own. *)
(***************************************************************************)
\* URLs the policy is asked about: the search URLs, and URLs that match a
\* pattern in upper case, in the path only, inside a longer host name, or
\* match an allow- and a block-pattern at once, or are on the academic
\* allow-list without matching an allow-pattern
PolicyUrls ==
  SearchUrls \cup
  { U_invented,
    <<"https://", "www.", "OHCHR", ".ORG", "/x">>,
    <<"https://", "evil", ".com", "/", "ohchr", ".org">>,
    <<"https://", "f", "un", ".org", "/x">>,
    <<"https://", "www.", "amnesty", ".org", "/en">>,
    <<"https://", "www.", "justice", ".gov", "/x">>,
    <<"https://", "www.", "ncbi.nlm.nih", ".gov", "/books">>,
    <<"https://", "example-blog", ".com", "/", "un", ".org">>,
    <<"https://", "www.", "jstor", ".org", "/stable", "/pdf", "/1">>,
    <<"https://", "mit", ".EDU", "/paper">>,
    <<"https://", "mit", ".edu", "/abstract">>,
    <<"https://", "www.", "wiley", ".com", "/doi">> }

\* type Scope, and a value outside it
Scopes == {"International", "Regional", "National", "Global"}

\* what the user types into the sub-scope field
SubScopes ==
  { << >>, <<"Europe">>, <<"Europe", "an", " Union">>, <<"Africa">>,
    <<"Europe", " and ", "Africa">>, <<"Africa", " and ", "Asia">>,
    <<"South ", "America">>, <<"Latin ", "America", " and ", "Asia">>,
    <<"Inter-", "America", "n">>, <<"Asia">>, <<"ASEAN">>,
    <<"Oceania">>, <<"France">> }

\* an if-chain that asks for Africa before Europe
RegionOfAfricaFirst(region) ==
  IF includes(region, <<"africa">>) \/ includes(region, <<"africa", "n">>)
  THEN "Africa"
  ELSE IF includes(region, <<"europe">>) \/ includes(region, <<"europe", "an">>)
  THEN "Europe"
  ELSE IF includes(region, <<"america">>) \/ includes(region, <<"inter-", "america", "n">>)
  THEN "Americas"
  ELSE IF includes(region, <<"asia">>) \/ includes(region, <<"asean">>)
  THEN "Asia"
  ELSE "other"

\* the if / else if chain over region in getScopeSearchInstructions
RegionOf(region) ==
  IF includes(region, <<"europe">>) \/ includes(region, <<"europe", "an">>)
  THEN "Europe"
  ELSE IF includes(region, <<"africa">>) \/ includes(region, <<"africa", "n">>)
  THEN "Africa"
  ELSE IF includes(region, <<"america">>) \/ includes(region, <<"inter-", "america", "n">>)
  THEN "Americas"
  ELSE IF includes(region, <<"asia">>) \/ includes(region, <<"asean">>)
  THEN "Asia"
  ELSE "other"

\* function getScopeSearchInstructions(scope, subScope, rightName): the
\* text as atoms, each template by its first words and its heading
getScopeSearchInstructions(scope, subScope, rightName) ==
  LET sc == LowerAtom(scope) IN
  CASE sc = "international" ->
         <<"Search for INTERNATIONAL legal instruments protecting ", rightName,
           "UN treaties and conventions">>
    [] sc = "regional" ->
         <<"Search for REGIONAL legal instruments protecting ", rightName>> \o
         ( IF subScope # << >>
           THEN LET r == RegionOf(toLowerCase(subScope)) IN
                CASE r = "Europe" -> <<" in Europe.", "European Convention on Human Rights">>
                  [] r = "Africa" -> <<" in Africa.", "African Charter">>
                  [] r = "Americas" -> <<" in the Americas.", "American Convention on Human Rights">>
                  [] r = "Asia" -> <<" in Asia.", "ASEAN Human Rights Declaration">>
                  [] OTHER -> <<".", "Look for regional human rights systems including:">>
           ELSE <<".", "Search across all regional systems:">> )
    [] sc = "national" ->
         IF subScope # << >>
         THEN <<"Search for NATIONAL laws and constitutional provisions protecting ",
                rightName, " in ">> \o subScope \o <<"National constitution">>
         ELSE <<"Search for examples of NATIONAL laws protecting ", rightName,
                " across different countries.">>
    [] OTHER ->
         <<"Search for legal instruments protecting ", rightName, " at ", scope, " level ">>
           \o (IF subScope # << >> THEN <<"in ">> \o subScope ELSE << >>)

\* isTrustedSource is applied to a url and a category
Call_isTrustedSource ==
  /\ \E url \in PolicyUrls, type \in SourceTypes :
       pol' = [fn |-> "isTrustedSource", args |-> <<url, type>>,
               result |-> isTrustedSource(url, type)]
  /\ UNCHANGED <<seqvars, reqs, ui>>

\* isLikelyAccessible is applied to a url and a category
Call_isLikelyAccessible ==
  /\ \E url \in PolicyUrls, type \in SourceTypes :
       pol' = [fn |-> "isLikelyAccessible", args |-> <<url, type>>,
               result |-> isLikelyAccessible(url, type)]
  /\ UNCHANGED <<seqvars, reqs, ui>>

\* getScopeSearchInstructions is applied to a scope and a sub-scope
Call_getScopeSearchInstructions ==
  /\ \E scope \in Scopes, subScope \in SubScopes, rightName \in {"Right to Life"} :
       pol' = [fn |-> "getScopeSearchInstructions",
               args |-> <<scope, subScope, rightName>>,
               result |-> getScopeSearchInstructions(scope, subScope, rightName)]
  /\ UNCHANGED <<seqvars, reqs, ui>>

NextHelpers ==
  \/ Call_isTrustedSource
  \/ Call_isLikelyAccessible
  \/ Call_getScopeSearchInstructions

SpecHelpers == Init /\ [][NextHelpers]_vars

(***************************************************************************)
(* services/gemini.ts 266-697: the App component.  A user event runs its   *)
(* handler up to the handler's await; the continuation of an await runs    *)
(* when its retrieval settles, in any order.                               *)
(***************************************************************************)
\* const newItem: CanvasItem, const newConn: Connection
CanvasItem(id, name) ==
  [id |-> id, name |-> name, analysis |-> NoText, analysisType |-> "none"]
Connection(id, from, to) ==
  [id |-> id, fromId |-> from, toId |-> to, analysis |-> NoText]

\* a retrieval the component awaits, and the DialogueResult it resolves to
Request(kind, target, subjects, type) ==
  [kind |-> kind, target |-> target, subjects |-> subjects, type |-> type]
ResultOf(req) == [target |-> req.target, subjects |-> req.subjects, type |-> req.type]

\* searchMode === 'Framework' ? 'treaty' : 'status'
TargetType(searchMode) == IF searchMode = "Framework" THEN "treaty" ELSE "status"

\* `${from.name} + ${to.name}`
PairDisplay(a, b) == <<a, " + ", b>>

ItemIds(items) == {items[i].id : i \in 1..Len(items)}
\* canvasItems.find(i => i.id === id), when there is one
FindItem(items, id) == items[CHOOSE i \in 1..Len(items) : items[i].id = id]

RemoveAt(seq, k) == [i \in 1..(Len(seq) - 1) |-> IF i < k THEN seq[i] ELSE seq[i + 1]]

\* a cache test that does not look at the type of the stored analysis
CacheHitAnyType(item, targetType) == item.analysis # NoText

\* item.analysis && item.analysisType === targetType
CacheHit(item, targetType) ==
  item.analysis # NoText /\ item.analysisType = targetType

\* a store that matches the item by its name
StoreOnItemByName(items, req, res) ==
  [i \in 1..Len(items) |->
     IF <<items[i].name>> = req.subjects
     THEN [items[i] EXCEPT !.analysis = JSONstringify(res), !.analysisType = req.type]
     ELSE items[i]]

\* prev.map(it => it.id === newItem.id ? { ...it, analysis, analysisType } : it)
StoreOnItem(items, req, res) ==
  [i \in 1..Len(items) |->
     IF items[i].id = req.target
     THEN [items[i] EXCEPT !.analysis = JSONstringify(res), !.analysisType = req.type]
     ELSE items[i]]

\* prev.map(c => c.id === connectionId ? { ...c, analysis } : c)
StoreOnConnection(conns, req, res) ==
  [i \in 1..Len(conns) |->
     IF conns[i].id = req.target
     THEN [conns[i] EXCEPT !.analysis = JSONstringify(res)]
     ELSE conns[i]]

\* a search for a connection in one direction only
JoinsOneWay(c, a, b) == c.fromId = a /\ c.toId = b

\* (c.fromId === connectingFrom && c.toId === item.id) ||
\* (c.fromId === item.id && c.toId === connectingFrom)
Joins(c, a, b) ==
  \/ c.fromId = a /\ c.toId = b
  \/ c.fromId = b /\ c.toId = a

HasExisting(conns, a, b) == \E i \in 1..Len(conns) : Joins(conns[i], a, b)
\* connections.find(...): the first match
Existing(conns, a, b) ==
  conns[CHOOSE i \in 1..Len(conns) :
          Joins(conns[i], a, b) /\ \A j \in 1..(i - 1) : ~Joins(conns[j], a, b)]

\* const handleConnectionClick: the state it leaves when run in state u
handleConnectionClick(u, conn) ==
  IF conn.analysis = NoText
       \/ conn.fromId \notin ItemIds(u.canvasItems)
       \/ conn.toId \notin ItemIds(u.canvasItems)
  THEN u
  ELSE LET from == FindItem(u.canvasItems, conn.fromId)
           to   == FindItem(u.canvasItems, conn.toId)
       IN  [u EXCEPT !.selectedDisplay = PairDisplay(from.name, to.name),
                     !.activeSubjects = <<from.name, to.name>>,
                     !.analysisType = "nexus",
                     !.activeAnalysis = JSONparse(conn.analysis)]

\* a user event leaves the state u
UserEvent(u) ==
  /\ ui' = [u EXCEPT !.afterClear = FALSE]
  /\ UNCHANGED <<seqvars, reqs, pol>>

\* const handleDrop: up to the await
handleDrop ==
  /\ ui.nextItemId <= MaxItems
  /\ Len(ui.inFlight) < MaxInFlight
  /\ \E name \in Rights :
       LET id == ui.nextItemId
           targetType == TargetType(ui.searchMode)
       IN  UserEvent([ui EXCEPT
             !.canvasItems = Append(@, CanvasItem(id, name)),
             !.selectedDisplay = <<name>>,
             !.activeSubjects = <<name>>,
             !.analysisType = targetType,
             !.isLoading = TRUE,
             !.inFlight = Append(@, Request("item", id, <<name>>, targetType)),
             !.nextItemId = id + 1])

\* handleDrop / handleItemClick after the await: try and finally
ItemRetrievalSettles ==
  /\ \E k \in 1..Len(ui.inFlight) :
       /\ ui.inFlight[k].kind = "item"
       /\ LET req == ui.inFlight[k]
              res == ResultOf(req)
          IN  ui' = [ui EXCEPT
                !.activeAnalysis = res,
                !.canvasItems = StoreOnItem(@, req, res),
                !.isLoading = FALSE,
                !.inFlight = RemoveAt(@, k)]
  /\ UNCHANGED <<seqvars, reqs, pol>>

\* const handleItemMouseDown (on the item, not on one of its buttons)
handleItemMouseDown ==
  \E i \in 1..Len(ui.canvasItems) :
    UserEvent([ui EXCEPT !.draggingItemId = ui.canvasItems[i].id,
                         !.hasMoved = FALSE])

\* const onMouseMove, registered while draggingItemId is set
onMouseMove ==
  /\ ui.draggingItemId # NoId
  /\ UserEvent([ui EXCEPT !.hasMoved = TRUE])

\* const onMouseUp
onMouseUp ==
  /\ ui.draggingItemId # NoId
  /\ UserEvent([ui EXCEPT !.draggingItemId = NoId])

\* const handleItemClick: up to the await, or to its end on a cache hit
handleItemClick(i) ==
  /\ i \in 1..Len(ui.canvasItems)
  /\ ~ui.hasMoved
  /\ LET item == ui.canvasItems[i]
         targetType == TargetType(ui.searchMode)
         shown == [ui EXCEPT !.selectedDisplay = <<item.name>>,
                             !.activeSubjects = <<item.name>>,
                             !.analysisType = targetType]
     IN  IF CacheHit(item, targetType)
         THEN UserEvent([shown EXCEPT !.activeAnalysis = JSONparse(item.analysis)])
         ELSE /\ Len(ui.inFlight) < MaxInFlight
              /\ UserEvent([shown EXCEPT
                    !.isLoading = TRUE,
                    !.activeAnalysis = NoAnalysis,
                    !.inFlight = Append(@, Request("item", item.id, <<item.name>>, targetType))])

\* a click on a connection that is drawn
ConnectionClick ==
  \E i \in 1..Len(ui.connections) :
    UserEvent(handleConnectionClick(ui, ui.connections[i]))

\* const handleNexusClick: up to the await
handleNexusClick(i) ==
  /\ i \in 1..Len(ui.canvasItems)
  /\ LET item == ui.canvasItems[i]
         from == ui.connectingFrom
     IN  IF from = NoId
         THEN UserEvent([ui EXCEPT !.connectingFrom = item.id])
         ELSE IF from = item.id
         THEN UserEvent([ui EXCEPT !.connectingFrom = NoId])
         ELSE IF from \notin ItemIds(ui.canvasItems)
         THEN UserEvent(ui)
         ELSE IF HasExisting(ui.connections, from, item.id)
         THEN UserEvent(handleConnectionClick([ui EXCEPT !.connectingFrom = NoId],
                                              Existing(ui.connections, from, item.id)))
         ELSE /\ ui.nextConnectionId <= MaxConnections
              /\ Len(ui.inFlight) < MaxInFlight
              /\ LET fromItem == FindItem(ui.canvasItems, from)
                     connectionId == ui.nextConnectionId
                     subjects == <<fromItem.name, item.name>>
                 IN  UserEvent([ui EXCEPT
                       !.connections = Append(@, Connection(connectionId, from, item.id)),
                       !.connectingFrom = NoId,
                       !.selectedDisplay = PairDisplay(fromItem.name, item.name),
                       !.activeSubjects = subjects,
                       !.analysisType = "nexus",
                       !.isLoading = TRUE,
                       !.activeAnalysis = NoAnalysis,
                       !.inFlight = Append(@, Request("conn", connectionId, subjects, "nexus")),
                       !.nextConnectionId = connectionId + 1])

\* handleNexusClick after the await: try and finally
NexusRetrievalSettles ==
  /\ \E k \in 1..Len(ui.inFlight) :
       /\ ui.inFlight[k].kind = "conn"
       /\ LET req == ui.inFlight[k]
              res == ResultOf(req)
          IN  ui' = [ui EXCEPT
                !.activeAnalysis = res,
                !.connections = StoreOnConnection(@, req, res),
                !.isLoading = FALSE,
                !.inFlight = RemoveAt(@, k)]
  /\ UNCHANGED <<seqvars, reqs, pol>>

\* prev.filter(conn => conn.fromId !== id && conn.toId !== id)
WithoutConnectionsOf(conns, id) ==
  SelectSeq(conns, LAMBDA c : c.fromId # id /\ c.toId # id)

\* const removeItem, called with the id of the i-th item
removeItem(i) ==
  /\ i \in 1..Len(ui.canvasItems)
  /\ LET id == ui.canvasItems[i].id
         removed == [ui EXCEPT
           !.canvasItems = SelectSeq(@, LAMBDA item : item.id # id),
           !.connections = WithoutConnectionsOf(@, id)]
     IN  IF ui.selectedDisplay # << >> /\ <<ui.canvasItems[i].name>> = ui.selectedDisplay
         THEN UserEvent([removed EXCEPT !.selectedDisplay = << >>,
                                        !.activeAnalysis = NoAnalysis,
                                        !.activeSubjects = << >>])
         ELSE UserEvent(removed)

\* const clearCanvas
clearCanvas ==
  /\ ui' = [ui EXCEPT !.canvasItems = << >>, !.connections = << >>,
                      !.activeAnalysis = NoAnalysis, !.selectedDisplay = << >>,
                      !.activeSubjects = << >>, !.connectingFrom = NoId,
                      !.isLoading = FALSE, !.afterClear = TRUE]
  /\ UNCHANGED <<seqvars, reqs, pol>>

\* const toggleSearchMode
toggleSearchMode ==
  \E mode \in {IF ui.searchMode = "Framework" THEN "Status" ELSE "Framework"} :
    UserEvent([ui EXCEPT !.searchMode = mode])

NextApp ==
  \/ handleDrop
  \/ ItemRetrievalSettles
  \/ handleItemMouseDown
  \/ onMouseMove
  \/ onMouseUp
  \/ \E i \in 1..MaxItems : handleItemClick(i)
  \/ ConnectionClick
  \/ \E i \in 1..MaxItems : handleNexusClick(i)
  \/ NexusRetrievalSettles
  \/ \E i \in 1..MaxItems : removeItem(i)
  \/ clearCanvas
  \/ toggleSearchMode

SpecApp == Init /\ [][NextApp]_vars

\* every model call that was issued settles: its promise is fulfilled or
\* rejected, and the continuation of the await runs
SpecGroundedFair ==
  /\ SpecGrounded
  /\ WF_vars(G_SearchSettles)
  /\ WF_vars(G_ExtractionSettles)

(***************************************************************************)
(* Properties.                                                             *)
(***************************************************************************)
\* the citations of a returned value: the elements of its sources array
Citations(v) ==
  IF HasArrayMember(v, "sources") THEN Member(v, "sources") ELSE << >>

Uris(cs) == {cs[i].uri : i \in 1..Len(cs)}

Finished == pc = "done" /\ op.name \in RetrievalOps

\* call B answered with an object whose array member `key` is there
Answered(key) ==
  Finished /\ respB.kind = "text" /\ HasArrayMember(respB.parsed, key)

\* the drafts the extraction call returned
Drafts == Member(respB.parsed, "sourceMatches")

\* the drafts whose urlIndex is an integer of [0, n)
InRange(d, n) == d.urlIndex.t = "int" /\ d.urlIndex.n >= 0 /\ d.urlIndex.n < n

ValidDrafts(n) == {i \in 1..Len(Drafts) : InRange(Drafts[i], n)}

TrustedGrounding ==
  Uris(FilterTrusted(ExtractGrounding(respA), SourceTypeOf(op)))

\* the operation ran to its end without entering a catch block
Succeeded ==
  /\ Finished
  /\ respA.kind = "ok"
  /\ respB.kind = "none" \/ (respB.kind = "text" /\ respB.parsed.shape # "unparseable")

\* C2: every citation of a result of a successful run has a uri that the
\* search step of the same request returned and that passed the trust
\* policy of the request's category.
C2_Traceable ==
  Succeeded => Uris(Citations(outcome.value)) \subseteq TrustedGrounding

\* C3: a draft whose urlIndex is not an integer, is negative or is >= n is
\* not in the validated result: the result holds at most one citation per
\* draft with an integer index of [0, n), each made from such a draft.
C3_IndexSafety ==
  Answered("sourceMatches") =>
    LET cites == Citations(outcome.value)
        n == Len(trustedUrls)
    IN  /\ Len(cites) <= Cardinality(ValidDrafts(n))
        /\ \A k \in 1..Len(cites) :
             \E i \in ValidDrafts(n) :
               cites[k].title = Drafts[i].title /\ cites[k].reference = Drafts[i].reference
        /\ (ValidDrafts(n) = {} => outcome = Returned(EmptyResult))

\* a batch held a draft with an index that is not an integer, one with a
\* negative index and one with an index >= n, and validation has run
C3_Witness ==
  /\ Answered("sourceMatches")
  /\ Len(trustedUrls) >= 1
  /\ \E i \in 1..Len(Drafts) : ~InRange(Drafts[i], Len(trustedUrls))
  /\ \E i \in 1..Len(Drafts) : InRange(Drafts[i], Len(trustedUrls))

\* C4: no two citations of a returned DialogueResult share a uri.
C4_Dedup ==
  Finished =>
    LET cites == Citations(outcome.value) IN
      \A i, j \in 1..Len(cites) : cites[i].uri = cites[j].uri => i = j

\* C5: when the trusted candidate list of a request is empty after
\* filtering, call B is never issued and the result is { sources: [] }.
C5_ShortCircuit ==
  (op.name \in RetrievalOps /\ respA.kind = "ok" /\ TrustedGrounding = {}) =>
    /\ "callB" \notin Range(log)
    /\ pc = "done"
    /\ outcome = Returned(EmptyResult)

C7_CallBFailure ==
  (Finished /\ "callB" \in Range(log)
     /\ (respB.kind = "throw" \/ ~HasArrayMember(respB.parsed, "sources"))) =>
    /\ outcome.kind = "returned"
    /\ Len(Citations(outcome.value)) = 1
    /\ isTrustedSource(Citations(outcome.value)[1].uri, SourceTypeOf(op))

\* C8: each of the four operations completes with a returned value, never
\* with a rejected promise.
C8_NeverThrows ==
  /\ outcome.kind # "threw"
  /\ pc = "done" => outcome.kind = "returned"

\* an operation ended after a call threw or answered with a wrong shape
C8_Witness ==
  /\ pc = "done"
  /\ \/ "throwA" \in Range(log)
     \/ "throwB" \in Range(log)
     \/ (respB.kind = "text" /\ respB.parsed.shape \in {"unparseable", "null"})

Count(s, x) == Cardinality({i \in 1..Len(s) : s[i] = x})

\* C9: in one retrieval operation call A and call B are each issued at most
\* once, call B only after call A returned and only with at least one
\* trusted candidate, and no call follows a failed call.
C9_CallBudget ==
  op.name \in RetrievalOps =>
    /\ Count(log, "callA") <= 1
    /\ Count(log, "callB") <= 1
    /\ \A i \in 1..Len(log) :
         log[i] = "callB" =>
           /\ \E j \in 1..(i - 1) : log[j] = "retA"
           /\ TrustedGrounding # {}
    /\ \A i \in 1..Len(log) :
         log[i] \in {"throwA", "throwB"} => i = Len(log)

\* C10: the trusted candidate list holds no uri twice, and its order is the
\* first-seen order of its uris in the grounding chunks.
C10_TrustedListUnique ==
  (op.name \in RetrievalOps /\ respA.kind = "ok") =>
    /\ \A i, j \in 1..Len(trustedUrls) :
         trustedUrls[i].uri = trustedUrls[j].uri => i = j
    /\ \A i, j \in 1..Len(trustedUrls) :
         i < j =>
           \E a, b \in 1..Len(respA.chunks) :
             /\ a < b
             /\ respA.chunks[a].uri = trustedUrls[i].uri
             /\ respA.chunks[b].uri = trustedUrls[j].uri

SemanticDone == pc = "done" /\ op.name = "getSemanticRights"

\* the least position of an array-valued member of an object
FirstArrayAt(fs) ==
  CHOOSE i \in 1..Len(fs) : fs[i].isArray /\ \A j \in 1..(i - 1) : ~fs[j].isArray

C12_ArrayOfStrings ==
  SemanticDone =>
    /\ outcome.kind = "returned"
    /\ outcome.value.shape = "array"
    /\ \A i \in 1..Len(outcome.value.items) : outcome.value.items[i].t = "str"

\* the request's search call answered and its continuation has run: the
\* filter has made the trusted list, and call B, if issued, is pending
Searched ==
  /\ op.name \in RetrievalOps
  /\ respA.kind = "ok"
  /\ pc \in {"awaitB", "done"}
  /\ respB.kind = "none"

Paywalled(url) ==
  \E k \in 1..Len(badPatterns) : includes(toLowerCase(url), badPatterns[k])

\* C13: a grounding candidate is in the trusted list exactly when the trust
\* policy accepts its uri for the category and, for the academic category,
\* the accessibility test accepts it too; a trusted academic candidate
\* that matches a paywall pattern is not in the list that call B is given.
C13_FilterRule ==
  Searched =>
    LET type == SourceTypeOf(op) IN
      /\ Range(trustedUrls) \subseteq Range(groundingUrls)
      /\ \A i \in 1..Len(groundingUrls) :
           LET c == groundingUrls[i] IN
             /\ (c \in Range(trustedUrls)) <=>
                  /\ isTrustedSource(c.uri, type)
                  /\ (type = "academic" => isLikelyAccessible(c.uri, "academic"))
             /\ (type = "academic" /\ Paywalled(c.uri)) => c \notin Range(trustedUrls)

\* a Nexus request whose search surfaced a trusted but paywalled source
\* next to an open one: call B is issued with the open one alone
C13_Witness ==
  /\ Searched
  /\ op.name = "getNexusAnalysis"
  /\ pc = "awaitB"
  /\ \E i \in 1..Len(groundingUrls) :
       /\ isTrustedSource(groundingUrls[i].uri, "academic")
       /\ Paywalled(groundingUrls[i].uri)
  /\ Len(trustedUrls) = 1

\* the position in Drafts of the k-th valid draft
NthValid(k, n) ==
  CHOOSE i \in ValidDrafts(n) : Cardinality({j \in ValidDrafts(n) : j <= i}) = k

\* C18: a batch of m drafts of which k have an invalid urlIndex yields
\* m - k citations, one for each valid draft, in the order of the drafts.
C18_PartialValidity ==
  Answered("sourceMatches") =>
    LET n     == Len(trustedUrls)
        cites == Citations(outcome.value)
        m     == Len(Drafts)
        k     == Cardinality({i \in 1..m : ~InRange(Drafts[i], n)})
    IN  /\ outcome.kind = "returned"
        /\ Len(cites) = m - k
        /\ \A c \in 1..Len(cites) :
             LET d == Drafts[NthValid(c, n)] IN
               /\ cites[c].title = d.title
               /\ cites[c].reference = d.reference
               /\ cites[c].uri = trustedUrls[d.urlIndex.n + 1].uri

\* two drafts, the first invalid and the second valid: one citation
C18_Witness ==
  /\ Answered("sourceMatches")
  /\ Len(Drafts) = 2
  /\ ~InRange(Drafts[1], Len(trustedUrls))
  /\ InRange(Drafts[2], Len(trustedUrls))
  /\ Len(Citations(outcome.value)) = 1

\* response A has no candidates, no grounding metadata or no chunks
AbsentGrounding ==
  respA.kind = "ok" /\ (respA.grounding # "chunks" \/ respA.chunks = << >>)

Extracting == op.name \in RetrievalOps /\ "callB" \in Range(log)

\* the position of an atom that occurs once in a sequence
PositionOf(atom, seq) == CHOOSE p \in 1..Len(seq) : seq[p] = atom

\* the prompt between its heading of the source list and its rules
ListPart(p) ==
  IF "Available verified sources:" \in Range(p)
  THEN SubSeq(p, PositionOf("Available verified sources:", p) + 1,
                 PositionOf("CRITICAL RULES", p) - 1)
  ELSE << >>

\* the positions in a source list at which an entry begins, and the
\* position at which the k-th entry begins
EntryStarts(list) == {q \in 1..Len(list) : list[q] = "["}
EntryStart(list, k) ==
  CHOOSE q \in EntryStarts(list) :
    Cardinality({x \in EntryStarts(list) : x <= q}) = k
EntryEnd(list, k) ==
  IF k = Cardinality(EntryStarts(list)) THEN Len(list)
  ELSE EntryStart(list, k + 1) - 1

\* the candidates of the request that the filter rejected
RejectedUris == Uris(groundingUrls) \ Uris(trustedUrls)

\* the list of the prompt has one entry for each trusted candidate, in
\* the order of the list and numbered from 0
ListsTrustedInOrder ==
  LET list == ListPart(prompt) IN
    /\ Cardinality(EntryStarts(list)) = Len(trustedUrls)
    /\ \A k \in 1..Len(trustedUrls) :
         LET q == EntryStart(list, k) IN
           /\ list[q + 1] = ToString(k - 1)
           /\ list[q + 3] = trustedUrls[k].title
           /\ SubSeq(list, q + 5, EntryEnd(list, k)) = trustedUrls[k].uri

\* every citation of the result has the uri of a trusted candidate
CitesTrustedOnly ==
  (Finished /\ outcome.kind = "returned") =>
     Uris(Citations(outcome.value)) \subseteq Uris(trustedUrls)

Searching == pc = "awaitA"
Failed ==
  /\ Finished
  /\ \/ respA.kind \in {"throw", "blocked"}
     \/ respB.kind = "throw"
     \/ respB.kind = "text" /\ ~HasArrayMember(respB.parsed, "sourceMatches")
Empty == Finished /\ respA.kind = "ok" /\ trustedUrls = << >> /\ "callB" \notin Range(log)
Done == Answered("sourceMatches")

\* the degraded static result: one placeholder citation
Degraded(v) ==
  /\ v.kind = "returned"
  /\ Len(Citations(v.value)) = 1
  /\ Citations(v.value)[1].reference # << >>

\* one step of a retrieval request along the state machine: the
\* continuation of call A extracts and filters before it either ends in
\* Empty or issues call B with a non-empty trusted list; a failure ends
\* in Failed with the degraded result
StateOrderStep ==
  (IF pc = "idle" THEN op' ELSE op).name \in RetrievalOps =>
    /\ pc = "idle" => Searching'
    /\ Searching =>
         \/ /\ pc' = "awaitB"
            /\ respA'.kind = "ok"
            /\ trustedUrls' # << >>
            /\ Range(trustedUrls') \subseteq Range(groundingUrls')
         \/ Empty' /\ outcome' = Returned(EmptyResult)
         \/ Failed' /\ Degraded(outcome') /\ "callB" \notin Range(log')
    /\ pc = "awaitB" =>
         \/ Done' /\ outcome'.kind = "returned" /\ ~Failed'
         \/ Failed' /\ Degraded(outcome')
    /\ pc = "done" => pc' = "idle"

\* C15: a retrieval request goes Idle, Searching, Extracted, Filtered and
\* then to Empty, or through Extracting and Validated to Done; Extracting
\* is entered only with a non-empty filtered list; a caught failure ends
\* the request in Failed with the degraded static result.
C15_StateOrder == [][StateOrderStep]_vars

\* exactly one of the three terminal states
OneTerminal ==
  /\ Done \/ Empty \/ Failed
  /\ ~(Done /\ Empty) /\ ~(Done /\ Failed) /\ ~(Empty /\ Failed)

\* C16: if every issued model call settles, a retrieval request reaches a
\* terminal state, which is exactly one of Done, Empty and Failed; it
\* stays there until the caller takes the result, and no step out of a
\* terminal state issues a model call.
C16_Termination ==
  /\ (op.name \in RetrievalOps /\ pc \in {"awaitA", "awaitB"}) ~> Finished
  /\ [](Finished => OneTerminal)
  /\ [][Finished => /\ pc' \in {"done", "idle"}
                    /\ pc' = "done" => outcome' = outcome
                    /\ log' = << >> \/ log' = log]_vars

\* a request ended in Failed after its second call was rejected
C16_Witness == Finished /\ Failed /\ "throwB" \in Range(log)

\* the citations of invocation i, and its own candidates and drafts
CitationsOf(i) == Citations(reqs[i].outcome.value)
OwnCandidates(i) == ExtractGrounding(reqs[i].respA)
OwnDrafts(i) == Member(reqs[i].respB.parsed, "sourceMatches")
AnsweredIn(i) ==
  /\ reqs[i].pc = "done"
  /\ reqs[i].respB.kind = "text"
  /\ HasArrayMember(reqs[i].respB.parsed, "sourceMatches")

\* C17: with several retrieval operations interleaved, each one's trusted
\* list comes from its own grounding candidates, and each one's result has
\* one citation for each of its own valid drafts, with the title of that
\* draft and the uri its own list has at that draft's index.
C17_Independence ==
  \A i \in ReqIds :
    /\ Range(reqs[i].trustedUrls) \subseteq Range(OwnCandidates(i))
    /\ AnsweredIn(i) =>
         LET own   == reqs[i].trustedUrls
             valid == SelectSeq(OwnDrafts(i),
                        LAMBDA d : d.urlIndex.n >= 0 /\ d.urlIndex.n < Len(own))
         IN  /\ Uris(CitationsOf(i)) \subseteq Uris(OwnCandidates(i))
             /\ Len(CitationsOf(i)) = Len(valid)
             /\ \A k \in 1..Len(valid) :
                  /\ CitationsOf(i)[k].title = valid[k].title
                  /\ CitationsOf(i)[k].uri = own[valid[k].urlIndex.n + 1].uri

\* two invocations that overlapped have both ended, with citations of
\* different sources
C17_Witness ==
  \E i, j \in ReqIds :
    /\ i # j
    /\ AnsweredIn(i) /\ AnsweredIn(j)
    /\ reqs[i].overlapped /\ reqs[j].overlapped
    /\ CitationsOf(i) # << >> /\ CitationsOf(j) # << >>
    /\ Uris(CitationsOf(i)) \cap Uris(CitationsOf(j)) = {}

\* the positions of the raw chunks that carry a web URL, and the k-th of them
WithUrl(cs) == {i \in 1..Len(cs) : cs[i].web /\ cs[i].uri # NoUri}
NthWithUrl(cs, k) ==
  CHOOSE i \in WithUrl(cs) : Cardinality({j \in WithUrl(cs) : j <= i}) = k

\* C21: the extracted candidates are the raw chunks that carry a web URL,
\* in input order; a chunk without a URL is dropped, and a chunk with a
\* URL and no title gives a candidate with the title "Source".
C21_GroundingExtractor ==
  (Searched /\ respA.grounding = "chunks") =>
    LET cs == respA.chunks IN
      /\ Len(groundingUrls) = Cardinality(WithUrl(cs))
      /\ \A k \in 1..Len(groundingUrls) :
           LET c == cs[NthWithUrl(cs, k)] IN
             /\ groundingUrls[k].uri = c.uri
             /\ groundingUrls[k].title = IF c.title = "" THEN "Source" ELSE c.title

\* a chunk without a URL came before a chunk with a URL and no title
C21_Witness ==
  /\ Searched /\ respA.grounding = "chunks"
  /\ Len(respA.chunks) = 2
  /\ respA.chunks[1].uri = NoUri
  /\ respA.chunks[2].uri # NoUri /\ respA.chunks[2].title = ""
  /\ Len(groundingUrls) = 1
  /\ groundingUrls[1].title = "Source"

\* the lower-cased text s has the lower-cased pattern p at some offset
ContainsLower(s, p) ==
  \E k \in 0..(Len(s) - Len(p)) :
    \A j \in 1..Len(p) : LowerAtom(s[k + j]) = LowerAtom(p[j])

ContainsAnyOf(s, patterns) ==
  \E k \in 1..Len(patterns) : ContainsLower(s, patterns[k])

\* C22: isTrusted(uri, category) is true exactly when the lower-cased uri
\* contains, at any position, the lower-cased form of an entry of the
\* allow-list of that category; no other category's list has a say.
C22_TrustIsSubstringMatch ==
  pol.fn = "isTrustedSource" =>
    pol.result = ContainsAnyOf(pol.args[1], TRUSTED_DOMAINS[pol.args[2]])

\* an upper-case uri was accepted, and a uri that only another
\* category's list knows was refused
C22_Witness ==
  /\ pol.fn = "isTrustedSource"
  /\ \/ pol.result /\ pol.args[1] # toLowerCase(pol.args[1])
     \/ /\ ~pol.result
        /\ \E t \in SourceTypes \ {pol.args[2]} :
             ContainsAnyOf(pol.args[1], TRUSTED_DOMAINS[t])
        /\ pol.args[2] = "ngo"

\* C23: for the academic category isAccessible is true exactly when the
\* lower-cased uri contains an allow-pattern and no block-pattern; for
\* the legal and ngo categories it is true of every uri.
C23_Accessibility ==
  pol.fn = "isLikelyAccessible" =>
    pol.result =
      IF pol.args[2] = "academic"
      THEN /\ ContainsAnyOf(pol.args[1], goodPatterns)
           /\ ~ContainsAnyOf(pol.args[1], badPatterns)
      ELSE TRUE

\* an academic uri with an allow-pattern and a block-pattern was refused
C23_Witness ==
  /\ pol.fn = "isLikelyAccessible"
  /\ pol.args[2] = "academic"
  /\ ContainsAnyOf(pol.args[1], goodPatterns)
  /\ ContainsAnyOf(pol.args[1], badPatterns)
  /\ ~pol.result

\* the sub-scope has the region's name as one of its words
Names(subScope, region) == \E i \in 1..Len(subScope) : LowerAtom(subScope[i]) = region
Has(text, atom) == \E i \in 1..Len(text) : text[i] = atom

Items == ui.canvasItems
Holding(item) == item.analysis # NoText

\* C25: the loading indicator is on whenever at least one retrieval is in
\* flight, also when operations are issued back to back or the canvas is
\* reset while one is pending
C25_LoadingWhileInFlight == ui.inFlight # << >> => ui.isLoading

\* C26: every canvas item that holds an analysis holds the result of a
\* retrieval issued for that very item (matched by id), for its own name,
\* of the analysis type recorded with it
C26_ResultOnOwnItem ==
  \A i \in 1..Len(Items) :
    Holding(Items[i]) =>
      LET res == JSONparse(Items[i].analysis)
      IN  /\ res.target = Items[i].id
          /\ res.subjects = <<Items[i].name>>
          /\ res.type = Items[i].analysisType

\* two items of one name, analysed in different modes, each holding its
\* own result after both retrievals have settled
C26_Witness ==
  \E i, j \in 1..Len(Items) :
    /\ i # j
    /\ Items[i].name = Items[j].name
    /\ Holding(Items[i])
    /\ Holding(Items[j])
    /\ Items[i].analysisType # Items[j].analysisType
    /\ ui.inFlight = << >>

C28_PanelMatchesSelection ==
  (ui.activeAnalysis # NoAnalysis /\ ~ui.isLoading /\ ui.inFlight = << >>) =>
    /\ ui.activeAnalysis.subjects = ui.activeSubjects
    /\ ui.activeAnalysis.type = ui.analysisType

\* C29: from clearCanvas until the next user action the panel shows no
\* analysis and the canvas has no items and no connections
C29_ClearedStaysCleared ==
  ui.afterClear =>
    /\ ui.activeAnalysis = NoAnalysis
    /\ ui.canvasItems = << >>
    /\ ui.connections = << >>

Ends(c) == {c.fromId, c.toId}
ConnectionsWellFormed ==
  \A i \in 1..Len(ui.connections) :
    LET c == ui.connections[i]
    IN  /\ c.fromId # c.toId
        /\ Ends(c) \subseteq ItemIds(Items)
        /\ \A j \in 1..Len(ui.connections) :
             Ends(ui.connections[j]) = Ends(c) => j = i
Connected(a, b) == \E i \in 1..Len(ui.connections) : Ends(ui.connections[i]) = {a, b}

\* C30: every connection joins two distinct items that are on the canvas,
\* no unordered pair has two connections, and a nexus click that completes
\* a pair which is already connected issues no retrieval and adds no
\* connection
C30_Connections ==
  /\ []ConnectionsWellFormed
  /\ [][\A i \in 1..MaxItems :
         (handleNexusClick(i) /\ Connected(ui.connectingFrom, Items[i].id)) =>
           /\ ui'.inFlight = ui.inFlight
           /\ ui'.connections = ui.connections]_vars

\* the second item was picked first and the pair, connected from the first
\* to the second, is shown from its stored analysis
C30_Witness ==
  /\ Len(ui.connections) = 1
  /\ Len(Items) = 2
  /\ ui.connections[1].fromId = Items[1].id
  /\ ui.connections[1].toId = Items[2].id
  /\ ui.connections[1].analysis # NoText
  /\ ui.nextConnectionId = 2
  /\ ui.connectingFrom = NoId
  /\ ui.analysisType = "nexus"
  /\ ui.activeAnalysis = JSONparse(ui.connections[1].analysis)
  /\ ui.inFlight = << >>
  /\ \A i \in 1..2 : Holding(Items[i])

\* C31: whenever connectingFrom is set it names an item that is on the
\* canvas, also after the item that started the link was removed
C31_NexusNeverDangles ==
  ui.connectingFrom # NoId => ui.connectingFrom \in ItemIds(Items)

\* the analysis res is about the item id: it was retrieved for that item,
\* or for a connection that has the item at one end
IsAbout(res, id) ==
  IF res.type = "nexus"
  THEN \E k \in 1..Len(ui.connections) :
         ui.connections[k].id = res.target /\ id \in Ends(ui.connections[k])
  ELSE res.type # "none" /\ res.target = id

\* C32: right after removeItem(id) the panel shows no analysis that is
\* about the removed item, be it the item's own analysis or the analysis
\* of a pair the item was part of
C32_RemovalClearsDisplay ==
  [][\A i \in 1..MaxItems :
       removeItem(i) => ~IsAbout(ui'.activeAnalysis, Items[i].id)]_vars

(***************************************************************************)
(* DomainTrustPolicy: host and path                                        *)
(***************************************************************************)
\* the atoms that begin with a slash: where the path of a url starts
PathAtoms ==
  {"/", "/x", "/y", "/report", "/abs/1", "/content", "/pdf", "/invented",
   "/en", "/stable", "/1", "/paper", "/abstract", "/doi", "/books"}
PathStart(url) ==
  IF \E k \in 2..Len(url) : url[k] \in PathAtoms
  THEN CHOOSE k \in 2..Len(url) :
         url[k] \in PathAtoms /\ \A j \in 2..(k - 1) : url[j] \notin PathAtoms
  ELSE Len(url) + 1
\* what stands between the scheme and the path
Host(url) == SubSeq(url, 2, PathStart(url) - 1)

\* C33: a uri whose host matches no entry of the category's allow-list is
\* not trusted for that category, whatever its path contains
C33_TrustDecidedByHost ==
  (pol.fn = "isTrustedSource" /\ pol.result) =>
    ContainsAnyOf(Host(pol.args[1]), TRUSTED_DOMAINS[pol.args[2]])

\* C34: for the academic category every uri that matches an entry of the
\* academic allow-list and no block-pattern passes the accessibility test
C34_AcademicListsConsistent ==
  ( /\ pol.fn = "isLikelyAccessible"
    /\ pol.args[2] = "academic"
    /\ ContainsAnyOf(pol.args[1], TRUSTED_DOMAINS["academic"])
    /\ ~ContainsAnyOf(pol.args[1], badPatterns) ) =>
    pol.result

(***************************************************************************)
(* CitationValidator: the fields of a citation                             *)
(***************************************************************************)
HasYear(d) == d.year # "" /\ d.year # NoYear

\* C35: each citation of a validated result has the title and the
\* reference of its draft and the draft's year as date, "N/A" when the
\* year is missing or empty; there is no citation without a draft
C35_CitationFields ==
  Answered("sourceMatches") =>
    LET n     == Len(trustedUrls)
        cites == Citations(outcome.value)
    IN  /\ Len(cites) = Cardinality(ValidDrafts(n))
        /\ \A c \in 1..Len(cites) :
             LET d == Drafts[NthValid(c, n)] IN
               /\ cites[c].title = d.title
               /\ cites[c].reference = d.reference
               /\ HasYear(d) => cites[c].date = d.year
               /\ ~HasYear(d) => cites[c].date = "N/A"

\* two citations: one of a draft without a year member, dated "N/A", and
\* one of a draft of 2020
C35_Witness ==
  /\ Answered("sourceMatches")
  /\ Len(Citations(outcome.value)) = 2
  /\ Drafts[1].year = NoYear
  /\ Drafts[2].year = "2020"
  /\ Citations(outcome.value)[1].date = "N/A"
  /\ Citations(outcome.value)[2].date = "2020"
====
